---------------------------- MODULE Spec2Model ----------------------------
(***************************************************************************)
(* A* grid search of src/lib.rs (a_star, Node::new, Dirs, Point::add).     *)
(* One behaviour of the model is one call of a_star: Init fixes the        *)
(* arguments and pushes the start node, every step is one iteration of     *)
(* the `loop`.                                                             *)
(***************************************************************************)
EXTENDS Integers, Sequences, FiniteSets, TLC

(* ------------------------------ bounds --------------------------------- *)
\* grids are at most MaxSide x MaxSide; those of at most MaxCells cells are
\* run with every set of at most MaxWalls walls, the larger ones without
\* walls
MaxSide == 5
MaxCells == 10
MaxWalls == 2
\* grids of the fair specification: at most LiveSide x LiveSide and at most
\* LiveCells cells, with every set of at most LiveWalls walls
LiveSide == 4
LiveCells == 6
LiveWalls == 2

VARIABLES
    width,      \* argument `width`
    height,     \* argument `height`
    start,      \* argument `start`
    end,        \* argument `end`
    walls,      \* argument `walls` (only ever used through `contains`)
    open,       \* local `open: Vec<Node>`
    closed,     \* local `closed: Vec<Node>`
    best_node,  \* local `best_node` of the last iteration: <<>> or <<node>>
    constructed,\* every value Node::new has returned so far in this call
    pushed,     \* every node given to open.push so far, in push order
    pc,         \* "searching", "found" (break best_node) or "exhausted" (panic)
    result      \* value of the `loop` expression: <<>> or <<node>>

vars == <<width, height, start, end, walls, open, closed, best_node,
          constructed, pushed, pc, result>>

args == <<width, height, start, end, walls>>

(* ---------------------------- Point, Node ------------------------------ *)
Point(px, py) == [x |-> px, y |-> py]

\* Point::add
PointAdd(self, other_point) ==
    [x |-> self.x + other_point.x, y |-> self.y + other_point.y]

\* i32::abs
Abs(n) == IF n < 0 THEN -n ELSE n

MOVE_COST == 1

\* Node::new with f computed from g alone
NodeNew_NoH(pos, parent_node, end_pos) ==
    LET base_h == Abs(pos.x - end_pos.x) + Abs(pos.y - end_pos.y)
    IN  IF parent_node # <<>>
        THEN LET g == parent_node[1].g + MOVE_COST
             IN  [parent |-> <<parent_node[1].pos>>, pos |-> pos,
                  g |-> g, h |-> base_h, f |-> g]
        ELSE [parent |-> <<>>, pos |-> pos, g |-> 0, h |-> base_h, f |-> 0]

\* Node::new whose parentless node already costs one move
NodeNew_StartCost(pos, parent_node, end_pos) ==
    LET base_h == Abs(pos.x - end_pos.x) + Abs(pos.y - end_pos.y)
    IN  IF parent_node # <<>>
        THEN LET g == parent_node[1].g + MOVE_COST
             IN  [parent |-> <<parent_node[1].pos>>, pos |-> pos,
                  g |-> g, h |-> base_h, f |-> g + base_h]
        ELSE [parent |-> <<>>, pos |-> pos, g |-> MOVE_COST, h |-> base_h,
              f |-> MOVE_COST + base_h]

\* Node::new that charges nothing for the move from the parent
NodeNew_FreeMove(pos, parent_node, end_pos) ==
    LET base_h == Abs(pos.x - end_pos.x) + Abs(pos.y - end_pos.y)
    IN  IF parent_node # <<>>
        THEN LET g == parent_node[1].g
             IN  [parent |-> <<parent_node[1].pos>>, pos |-> pos,
                  g |-> g, h |-> base_h, f |-> g + base_h]
        ELSE [parent |-> <<>>, pos |-> pos, g |-> 0, h |-> base_h,
              f |-> base_h]

\* Node::new that records the grandparent: the parent field of the parent
NodeNew_GrandParent(pos, parent_node, end_pos) ==
    LET base_h == Abs(pos.x - end_pos.x) + Abs(pos.y - end_pos.y)
    IN  IF parent_node # <<>>
        THEN LET g == parent_node[1].g + MOVE_COST
             IN  [parent |-> parent_node[1].parent, pos |-> pos,
                  g |-> g, h |-> base_h, f |-> g + base_h]
        ELSE [parent |-> <<>>, pos |-> pos, g |-> 0, h |-> base_h,
              f |-> base_h]

\* Node::new; Option<..> is <<>> (None) or <<v>> (Some(v))
NodeNew(pos, parent_node, end_pos) ==
    LET base_g == 0
        base_h == Abs(pos.x - end_pos.x) + Abs(pos.y - end_pos.y)
    IN  IF parent_node # <<>>
        THEN LET parent == parent_node[1]
                 g == base_g + parent.g + MOVE_COST
                 h == base_h
                 f == g + h
             IN  [parent |-> <<parent.pos>>, pos |-> pos,
                  g |-> g, h |-> h, f |-> f]
        ELSE LET g == base_g
                 h == base_h
                 f == g + h
             IN  [parent |-> <<>>, pos |-> pos, g |-> g, h |-> h, f |-> f]

\* impl PartialEq for Node: by position only
NodeEq(self, other) == self.pos = other.pos

\* Vec<Node>::contains, through Node's PartialEq
Contains(list, node) == \E i \in 1..Len(list) : NodeEq(list[i], node)

(* -------------------------------- Dirs --------------------------------- *)
\* Dirs::get
DirsGet(dir) ==
    CASE dir = "N" -> Point(0, -1)
      [] dir = "E" -> Point(1, 0)
      [] dir = "S" -> Point(0, 1)
      [] dir = "W" -> Point(-1, 0)

\* the directions taken backwards
DirsIter_Reversed == <<"W", "S", "E", "N">>

\* Dirs::iter
DirsIter == <<"N", "E", "S", "W">>

(* ------------------------------- a_star -------------------------------- *)
\* a sort that puts the lowest f first, so that pop takes the highest f
SortByF_Ascending(list) ==
    LET n == Len(list)
        Rank(i) == Cardinality({j \in 1..n :
                        \/ list[j].f < list[i].f
                        \/ list[j].f = list[i].f /\ j <= i})
    IN  [k \in 1..n |-> list[CHOOSE i \in 1..n : Rank(i) = k]]

\* a descending sort that reverses the order of elements of equal f
SortByF_TiesReversed(list) ==
    LET n == Len(list)
        Rank(i) == Cardinality({j \in 1..n :
                        \/ list[j].f > list[i].f
                        \/ list[j].f = list[i].f /\ j >= i})
    IN  [k \in 1..n |-> list[CHOOSE i \in 1..n : Rank(i) = k]]

\* open.sort_by(|a, b| b.f.cmp(&a.f)): descending f, and stable (slice
\* sort_by keeps the order of equal elements).  Element i lands behind
\* every element of larger f and every earlier element of equal f.
SortByF(list) ==
    LET n == Len(list)
        Rank(i) == Cardinality({j \in 1..n :
                        \/ list[j].f > list[i].f
                        \/ list[j].f = list[i].f /\ j <= i})
    IN  [k \in 1..n |-> list[CHOOSE i \in 1..n : Rank(i) = k]]

\* the rejection test that forgets the walls
Rejected_NoWalls(next_pos) ==
    \/ next_pos.x >= width
    \/ next_pos.x < 0
    \/ next_pos.y >= height
    \/ next_pos.y < 0

\* the rejection test whose right edge is one column short
Rejected_OffByOne(next_pos) ==
    \/ next_pos.x >= width - 1
    \/ next_pos.x < 0
    \/ next_pos.y >= height
    \/ next_pos.y < 0
    \/ next_pos \in walls

\* the rejection test without the left edge
Rejected_NoWest(next_pos) ==
    \/ next_pos.x >= width
    \/ next_pos.y >= height
    \/ next_pos.y < 0
    \/ next_pos \in walls

\* the `continue` condition on a successor's position
Rejected(next_pos) ==
    \/ next_pos.x >= width
    \/ next_pos.x < 0
    \/ next_pos.y >= height
    \/ next_pos.y < 0
    \/ next_pos \in walls

\* the successor built for direction DirsIter[i]
Successor(best, i) ==
    NodeNew(PointAdd(best.pos, DirsGet(DirsIter[i])), <<best>>, end)

\* the loop body that relaxes: a successor cheaper than the open node of
\* its position takes that node's place
ForDir_Relax(op, cl, best, i) ==
    LET successor == Successor(best, i)
    IN  IF Rejected(successor.pos) THEN op
        ELSE IF ~Contains(op, successor) /\ ~Contains(cl, successor)
             THEN Append(op, successor)
             ELSE [k \in 1..Len(op) |->
                     IF op[k].pos = successor.pos /\ successor.g < op[k].g
                     THEN successor ELSE op[k]]

\* the loop body that looks for the successor in open only
ForDir_NoClosed(op, cl, best, i) ==
    LET successor == Successor(best, i)
    IN  IF Rejected(successor.pos) THEN op
        ELSE IF ~Contains(op, successor)
             THEN Append(op, successor)
             ELSE op

\* body of `for dir in Dirs::iter()` for direction DirsIter[i]: the open
\* list it leaves, given the open list op and the closed list cl before it
ForDir(op, cl, best, i) ==
    LET successor == Successor(best, i)
    IN  IF Rejected(successor.pos) THEN op
        ELSE IF ~Contains(op, successor) /\ ~Contains(cl, successor)
             THEN Append(op, successor)
             ELSE op

\* an exhausted open list that is not noticed: the loop spins
Fail_Spin ==
    /\ pc = "searching"
    /\ open = <<>>
    /\ UNCHANGED vars

\* iteration that finds open empty: panic!("No nodes in open list, ...")
Fail ==
    /\ pc = "searching"
    /\ open = <<>>
    /\ pc' = "exhausted"
    /\ UNCHANGED <<args, open, closed, best_node, constructed, pushed, result>>

\* iteration that pops the end node: sort, pop, break best_node
Found ==
    /\ pc = "searching"
    /\ open # <<>>
    /\ \E sorted \in {SortByF(open)} :
         \E best \in {sorted[Len(sorted)]} :
            /\ best.pos = end
            /\ open' = SubSeq(sorted, 1, Len(sorted) - 1)
            /\ best_node' = <<best>>
            /\ result' = <<best>>
            /\ pc' = "found"
    /\ UNCHANGED <<args, closed, constructed, pushed>>

\* iteration that pops another node: sort, pop, close it, push successors
Expand ==
    /\ pc = "searching"
    /\ open # <<>>
    /\ \E sorted \in {SortByF(open)} :
         \E best \in {sorted[Len(sorted)]} :
            /\ best.pos # end
            /\ best_node' = <<best>>
            /\ closed' = Append(closed, best)
            /\ \E cl \in {Append(closed, best)} :
               \E o0 \in {SubSeq(sorted, 1, Len(sorted) - 1)} :
               \E o1 \in {ForDir(o0, cl, best, 1)} :
               \E o2 \in {ForDir(o1, cl, best, 2)} :
               \E o3 \in {ForDir(o2, cl, best, 3)} :
               \E o4 \in {ForDir(o3, cl, best, 4)} :
                  /\ open' = o4
                  /\ pushed' = pushed \o SubSeq(o4, Len(o0) + 1, Len(o4))
            /\ constructed' = constructed \cup
                   {Successor(best, i) : i \in 1..Len(DirsIter)}
    /\ UNCHANGED <<args, pc, result>>

(* ------------------------------- inputs -------------------------------- *)
Cells(w, h) == {Point(i, j) : i \in 0..(w - 1), j \in 0..(h - 1)}

WallSets(w, h, n) == {ws \in SUBSET Cells(w, h) : Cardinality(ws) <= n}

\* state after `open.push(Node::new(start, None, &end))`
Entered ==
    /\ open = <<NodeNew(start, <<>>, end)>>
    /\ closed = <<>>
    /\ best_node = <<>>
    /\ constructed = {NodeNew(start, <<>>, end)}
    /\ pushed = <<NodeNew(start, <<>>, end)>>
    /\ pc = "searching"
    /\ result = <<>>

\* a call with walls: start and end are any two cells of the grid, walls
\* included
InitWalled ==
    /\ width \in 1..MaxSide
    /\ height \in 1..MaxSide
    /\ width * height <= MaxCells
    /\ walls \in WallSets(width, height, MaxWalls)
    /\ start \in Cells(width, height)
    /\ end \in Cells(width, height)
    /\ Entered

\* a call on a grid without walls
InitFree ==
    /\ width \in 1..MaxSide
    /\ height \in 1..MaxSide
    /\ walls = {}
    /\ start \in Cells(width, height)
    /\ end \in Cells(width, height)
    /\ Entered

Init == InitWalled \/ InitFree

Next == Fail \/ Found \/ Expand

Spec == Init /\ [][Next]_vars

InitLive ==
    /\ width \in 1..LiveSide
    /\ height \in 1..LiveSide
    /\ width * height <= LiveCells
    /\ walls \in WallSets(width, height, LiveWalls)
    /\ start \in Cells(width, height)
    /\ end \in Cells(width, height)
    /\ Entered

\* the call is synchronous and never suspended: an iteration that can run
\* does run
FairSpec == InitLive /\ [][Next]_vars /\ WF_vars(Next)

(* ------------------- vocabulary of the properties ---------------------- *)
InBounds(p) == p.x >= 0 /\ p.x < width /\ p.y >= 0 /\ p.y < height

\* a cell a path may use
Free(p) == InBounds(p) /\ p \notin walls

Manhattan(p, q) == Abs(p.x - q.x) + Abs(p.y - q.y)

Steps == {Point(0, -1), Point(1, 0), Point(0, 1), Point(-1, 0)}

FreeNeighbours(ps) ==
    {q \in {PointAdd(p, d) : p \in ps, d \in Steps} : Free(q)}

\* breadth-first distance from the cells of `frontier` (at distance d) to
\* `goal` through free cells; -1 when there is none
RECURSIVE Bfs(_, _, _, _)
Bfs(frontier, seen, d, goal) ==
    IF goal \in frontier THEN d
    ELSE IF frontier = {} THEN -1
    ELSE LET nxt == FreeNeighbours(frontier) \ seen
         IN  Bfs(nxt, seen \cup nxt, d + 1, goal)

\* length of a shortest 4-directional path of free cells, -1 if none
Dist(from, to) == IF Free(from) THEN Bfs({from}, {from}, 0, to) ELSE -1

Reachable == Dist(start, end) >= 0

\* the precondition of a_star: start and end in bounds and not walls
Pre == Free(start) /\ Free(end)

Terminal == pc \in {"found", "exhausted"}

\* the positions from `node` back along the parent positions, each parent
\* looked up among the expanded nodes
RECURSIVE PathFrom(_, _)
PathFrom(node, fuel) ==
    IF node.parent = <<>> \/ fuel = 0 THEN <<node.pos>>
    ELSE LET i == CHOOSE k \in 1..Len(closed) : closed[k].pos = node.parent[1]
         IN  <<node.pos>> \o PathFrom(closed[i], fuel - 1)

Path == PathFrom(result[1], Len(closed))

Enclosed(p) == \A d \in Steps : ~Free(PointAdd(p, d))

(* ------------------------------- claims -------------------------------- *)
\* C1: with start and end free and joined by a path of free cells, the
\* returned node's g is the length of a shortest such path, walls or not.
C1_ShortestWithWalls ==
    (pc = "found" /\ Pre /\ Reachable) => result[1].g = Dist(start, end)

\* C2: on a grid without walls the returned node's g is the Manhattan
\* distance between start and end.
C2_ManhattanWhenFree ==
    (pc = "found" /\ walls = {}) => result[1].g = Manhattan(start, end)

C2_Witness ==
    /\ pc = "found" /\ walls = {} /\ width = 5 /\ height = 5
    /\ start = Point(0, 0) /\ end = Point(4, 0)
    /\ result[1].g = 4

\* C3: with start and end free, every cell of the path rebuilt from the
\* returned node is inside the grid and is not a wall.
C3_PathAvoidsWalls ==
    (pc = "found" /\ Pre) =>
        \A i \in 1..Len(Path) : InBounds(Path[i]) /\ Path[i] \notin walls

C3_Witness ==
    /\ pc = "found" /\ Pre /\ walls # {}
    /\ Len(Path) > Manhattan(start, end) + 1
    /\ Path[Len(Path)] = start /\ Path[1] = end

\* C4: with start and end free but not joined by any path of free cells
\* (end or start walled in), the search never returns a node and ends in
\* the empty-open failure.
C4_FailsWhenEnclosed ==
    (Pre /\ ~Reachable) => ([](pc # "found") /\ <>(pc = "exhausted"))

C4_Witness ==
    /\ pc = "exhausted" /\ Pre /\ start # end
    /\ (Enclosed(end) \/ Enclosed(start))

\* C5: when end is reachable from start through free cells the search
\* never fails on an empty open list and does return a node.
C5_FailureOnlyWhenNoPath ==
    Reachable => ([](pc # "exhausted") /\ <>(pc = "found"))

C5_Witness ==
    /\ pc = "found" /\ Reachable /\ walls # {} /\ closed # <<>>

\* C6: whatever the arguments, the loop reaches a terminal state: a node is
\* returned or the open list is found empty.
C6_Terminates == <>Terminal

C6_Witness == pc = "exhausted" /\ Len(closed) >= 3

\* C7: with start = end the first iteration returns the start node with
\* g = 0, h = 0 and no parent, and nothing is ever expanded.
C7_StartIsEnd ==
    start = end =>
        /\ closed = <<>>
        /\ \/ pc = "searching" /\ open = <<NodeNew(start, <<>>, end)>>
           \/ /\ pc = "found"
              /\ result = <<[parent |-> <<>>, pos |-> start,
                             g |-> 0, h |-> 0, f |-> 0]>>

C7_Witness ==
    /\ pc = "found" /\ start = end /\ width = 1 /\ height = 1
    /\ result[1].parent = <<>>

Detour3x3 ==
    /\ width = 3 /\ height = 3
    /\ start = Point(0, 0) /\ end = Point(2, 0)
    /\ walls = {Point(1, 0), Point(1, 1)}

\* C8 as stated: the 3x3 detour scenario returns g = 4.
C8_DetourIsFour == (Detour3x3 /\ pc = "found") => result[1].g = 4

\* C8: on the 3x3 grid with start (0,0), end (2,0) and walls (1,0), (1,1)
\* the returned node has g = 6, the length of the only detour (via row 2).
C8_DetourIsSix ==
    Detour3x3 => (pc # "exhausted" /\ (pc = "found" => result[1].g = 6))

C8_Witness == Detour3x3 /\ pc = "found" /\ result[1].pos = end

\* C9: every node Node::new has produced, kept or discarded, has
\* f = g + h and h = the Manhattan distance from its position to end.
C9_HeuristicInvariant ==
    \A n \in constructed :
        n.f = n.g + n.h /\ n.h = Manhattan(n.pos, end)

C9_Witness ==
    /\ \E n \in constructed : ~InBounds(n.pos)
    /\ \E n \in constructed : n.pos \in walls
    /\ \E n \in constructed : n.g >= 2 /\ Contains(closed, n)
    /\ pc = "found"

\* the nodes held by a list
Nodes(list) == {list[i] : i \in 1..Len(list)}

\* when the node at n's position was given to open.push: its place in the
\* push order
PushIndex(n) == CHOOSE i \in 1..Len(pushed) : pushed[i].pos = n.pos

\* C11: the node an iteration removes from open has the least f of the
\* nodes then in open, and of the open nodes with that least f it is the
\* one pushed last.
C11_PopsLatestMinimum ==
    [][(pc = "searching" /\ open # <<>>) =>
          /\ best_node' # <<>>
          /\ best_node'[1] \in Nodes(open)
          /\ \A n \in Nodes(open) :
                /\ n.f >= best_node'[1].f
                /\ n.f = best_node'[1].f =>
                      PushIndex(n) <= PushIndex(best_node'[1])]_vars

\* a tie was broken: the node just removed left behind an open node of the
\* same f that was pushed before it
C11_Witness ==
    /\ best_node # <<>>
    /\ \E n \in Nodes(open) :
          /\ n.f = best_node[1].f
          /\ n.parent # <<best_node[1].pos>>
          /\ PushIndex(n) < PushIndex(best_node[1])

\* the positions held by a list
Positions(list) == {list[i].pos : i \in 1..Len(list)}

\* no two places of the list hold the same position
DistinctPositions(list) ==
    \A i, j \in 1..Len(list) : list[i].pos = list[j].pos => i = j

\* C12: no position is held by more than one node of open and closed
\* together: none twice in open, none twice in closed (so none is expanded
\* twice), none in both.
C12_OneNodePerPosition ==
    /\ DistinctPositions(open)
    /\ DistinctPositions(closed)
    /\ Positions(open) \cap Positions(closed) = {}

\* a successor was turned away because its position was already held, once
\* by open and once by closed
C12_Witness ==
    /\ \E c \in constructed : \E n \in Nodes(open) :
          c.pos = n.pos /\ c # n
    /\ \E c \in constructed : \E n \in Nodes(closed) :
          c.pos = n.pos /\ c # n
    /\ Len(closed) >= 3

\* the nodes on record: in open, in closed, or returned
Held == Nodes(open) \cup Nodes(closed) \cup Nodes(result)

\* C13: a node on record stays on record as it is: no step changes the g,
\* f or parent recorded for a position, in open or in closed, also when the
\* position is rediscovered at a strictly smaller cost.
C13_NoRelaxation ==
    [][\A n \in Held :
          /\ n \in Held'
          /\ \A m \in Held' : m.pos = n.pos => m = n]_vars

\* a position on record in open was rediscovered at a strictly smaller g,
\* and the record still carries the larger one
C13_Witness ==
    \E c \in constructed : \E n \in Nodes(open) :
        c.pos = n.pos /\ c.g < n.g /\ c \notin Held

\* n's parent position is held by a closed node one cardinal step away
\* whose g is one less than n's
ParentClosed(n) ==
    /\ n.parent # <<>>
    /\ \E p \in Nodes(closed) :
          /\ p.pos = n.parent[1]
          /\ \E d \in Steps : PointAdd(p.pos, d) = n.pos
          /\ p.g = n.g - 1

\* C14: every node on record except the start node has a parent position
\* held by a closed node, one cardinal step from it and with g one less;
\* the only node without parent is the one at start, with g = 0; so the
\* parents of the returned node lead to start in exactly g steps.
C14_ParentChain ==
    /\ \A n \in Held :
          IF n.pos = start
          THEN n.parent = <<>> /\ n.g = 0
          ELSE ParentClosed(n)
    /\ pc = "found" =>
          /\ Len(Path) = result[1].g + 1
          /\ Path[Len(Path)] = start

C14_Witness ==
    /\ pc = "found" /\ result[1].g >= 3 /\ walls # {}
    /\ \E n \in Nodes(open) : ParentClosed(n)

\* North, East, South, West as the offsets they stand for
Offsets == <<Point(0, -1), Point(1, 0), Point(0, 1), Point(-1, 0)>>

\* a position a successor may take: in bounds, not a wall, and held by no
\* node of open or closed
Admissible(p) ==
    Free(p) /\ p \notin Positions(open) /\ p \notin Positions(closed)

\* the admissible neighbours of p, in the order North, East, South, West
AdmissibleNeighbours(p) ==
    SelectSeq([i \in 1..4 |-> PointAdd(p, Offsets[i])], Admissible)

\* which of North..West leads from n's parent to n
DirIndex(n) ==
    CHOOSE i \in 1..4 : PointAdd(n.parent[1], Offsets[i]) = n.pos

\* the successors the last expansion put into open that have the least f
\* of open
NewMinimal ==
    IF closed = <<>> \/ best_node # <<closed[Len(closed)]>> THEN {}
    ELSE {n \in Nodes(open) :
            /\ n.parent = <<best_node[1].pos>>
            /\ \A m \in Nodes(open) : m.f >= n.f}

\* C15: an expansion leaves the nodes that were in open in front and
\* appends behind them the admissible successors in the order North, East,
\* South, West; and when successors just appended have the least f of
\* open, the next iteration takes the one of the latest direction.
C15_AppendsInDirectionOrder ==
    [][/\ (pc = "searching" /\ open # <<>> /\ pc' = "searching") =>
            LET b == best_node'[1]
                k == Len(open) - 1
                news == AdmissibleNeighbours(b.pos)
            IN  /\ Len(open') = k + Len(news)
                /\ Nodes(SubSeq(open', 1, k)) = Nodes(open) \ {b}
                /\ \A j \in 1..Len(news) :
                      /\ open'[k + j].pos = news[j]
                      /\ open'[k + j].parent = <<b.pos>>
       /\ (pc = "searching" /\ NewMinimal # {}) =>
            /\ best_node'[1] \in NewMinimal
            /\ \A n \in NewMinimal : DirIndex(n) <= DirIndex(best_node'[1])
      ]_vars

\* the node just taken came in with a sibling of the same f and an earlier
\* direction, behind nodes that were in open before them
C15_Witness ==
    /\ best_node # <<>> /\ best_node[1].parent # <<>>
    /\ \E n \in Nodes(open) :
          /\ n.parent = best_node[1].parent
          /\ n.f = best_node[1].f
          /\ DirIndex(n) < DirIndex(best_node[1])
          /\ \E m \in Nodes(open) :
                m.parent # n.parent /\ PushIndex(m) < PushIndex(n)

\* C16 (implicit): the f of the nodes removed from open one after the other
\* never decreases; every successor has the f of its parent or that plus 2,
\* and no open node has an f below that of the node removed last.
C16_NonDecreasingF ==
    /\ [][(best_node # <<>> /\ best_node' # <<>>) =>
             best_node'[1].f >= best_node[1].f]_vars
    /\ [](\A n \in constructed :
             n.parent # <<>> =>
                \E p \in Nodes(closed) :
                    p.pos = n.parent[1] /\ n.f - p.f \in {0, 2})
    /\ [](best_node # <<>> =>
             \A n \in Nodes(open) : n.f >= best_node[1].f)

\* the f of the removed nodes has risen twice since the start node
C16_Witness ==
    /\ best_node # <<>> /\ closed # <<>>
    /\ best_node[1].f >= closed[1].f + 4
    /\ \E n \in Nodes(closed) : n.f = closed[1].f + 2

\* the free cells reachable from the cells of `frontier` (at distance d),
\* each paired with its breadth-first distance
RECURSIVE DistMap(_, _, _, _)
DistMap(frontier, seen, d, acc) ==
    IF frontier = {} THEN acc
    ELSE LET nxt == FreeNeighbours(frontier) \ seen
         IN  DistMap(nxt, seen \cup nxt, d + 1,
                     acc \cup {<<p, d>> : p \in frontier})

\* C17 (implicit): with start in bounds and not a wall, every node in open
\* or closed sits on a cell reachable from start through free cells, and
\* its g is at least the length of a shortest such path to that cell.
C17_GNeverUnderestimates ==
    Free(start) =>
        \E map \in {DistMap({start}, {start}, 0, {})} :
            \A n \in Nodes(open) \cup Nodes(closed) :
                \E e \in map : e[1] = n.pos /\ n.g >= e[2]

\* a node on record whose g is above the shortest path length to its cell
C17_Witness ==
    /\ Free(start) /\ walls # {}
    /\ \E n \in Nodes(closed) : n.g > Dist(start, n.pos)
    /\ \E n \in Nodes(open) : n.g = Dist(start, n.pos) /\ n.g >= 2

=============================================================================
